---- MODULE Spec2Model ----
(***************************************************************************)
(* Model of the relay server (src/server.js).                               *)
(*                                                                         *)
(* Part 1: the background-image cache slot (cachedImage, lastQueryUsed,     *)
(* lastFetchTime), refreshed by refreshImage (startup call + setInterval)   *)
(* and by the GET /api/music-image handler.                                 *)
(* Part 2: the cursor-following loop of GET /api/artist/:id/playlists and   *)
(* GET /api/artist/:id/top.                                                 *)
(*                                                                         *)
(* Node runs every callback to completion: a handler is interrupted only    *)
(* at an `await`.  Each action below is therefore one run-to-completion     *)
(* segment of a callback: from its start (or from the resumption of an      *)
(* await) up to the next await or its end.                                  *)
(***************************************************************************)
EXTENDS Integers, Sequences, FiniteSets, Bags, TLC

(***************************************************************************)
(* Bounds of the model.                                                     *)
(***************************************************************************)
\* number of clock steps of TickMs the model lets pass
MaxTicks == 3
\* number of GET /api/music-image handlers suspended at the same time
MaxInFlight == 1

\* number of outbound calls one paginated request is followed for
MaxCalls == 3
\* number of items a page of the catalog upstream carries at most
MaxItems == 2
\* steps of the clock of an audio request
MaxAudioTicks == 3
\* steps of the clock of the rate limiter
MaxLimiterTicks == 3

(***************************************************************************)
(* Program constants.                                                       *)
(***************************************************************************)
\* server.js:117  const cacheDuration = 1 * 60 * 1000
cacheDuration == 1 * 60 * 1000
\* server.js:156  setInterval(refreshImage, 1 * 60 * 1000)
refreshInterval == 1 * 60 * 1000
\* server.js:27-48 (first entries; the draw is bounded by MaxQueryIdx)
musicQueries ==
    << "music concert", "music festival", "vinyl records", "music studio",
       "headphones music", "guitar player", "piano keys", "dj equipment",
       "live band", "singer performing", "music notes", "rock band",
       "jazz musician", "classical music", "music producer", "concert crowd",
       "music instruments", "music sheet", "music technology",
       "music festival stage" >>

\* The granularity of the modelled clock: Date.now() values are observed at
\* multiples of half a cache duration, so that ages of exactly cacheDuration
\* and ages beyond it both occur.
TickMs == cacheDuration \div 2
\* Date.now() when the process starts.  The real value is the epoch time
\* (about 1.7e12); all that matters is that it exceeds cacheDuration, so that
\* the initial lastFetchTime = 0 counts as expired.
StartTime == 4 * TickMs
MaxNow == StartTime + MaxTicks * TickMs

(***************************************************************************)
(* Values.                                                                  *)
(***************************************************************************)
\* the photos the image upstream can answer with
PhotoIds == {1, 2}
\* the indexes Math.floor(Math.random() * musicQueries.length) is drawn from
QueryIdx == {1, 2}
\* JavaScript null
Null == << >>
\* JavaScript undefined, where it ends up as a value (an absent key of an
\* object is an absent field of the record)
Undefined == << "undefined" >>
\* the empty string, as a value kept apart from null and from every url and
\* query
EmptyString == << "" >>
\* a photo url served by the image upstream for photo i in resolution size
Url(i, size) == << "https://images.pexels.com/photos", i, size >>
\* the resolution variants a photo's `src` object carries
PexelsSizes == {"large2x", "original"}
\* the `size` query parameter values tried (default 'large2x'; "poster" is no
\* key of `src`)
SizeInputs == {"large2x", "poster"}
\* the `forceRefresh` query parameter values tried, as character sequences;
\* Null stands for an absent parameter
ForceRefreshInputs ==
    { Null, <<"t","r","u","e">>, <<"T","r","U","E">>, <<"1">> }

\* what the image upstream can do with one call
UpstreamOutcomes ==
    { [kind |-> "reject"],                       \* fetch() rejects
      [kind |-> "status", ok |-> FALSE],         \* non-2xx answer
      [kind |-> "badjson", ok |-> TRUE],         \* response.json() rejects
      [kind |-> "json", ok |-> TRUE, photos |-> << >>] }
    \cup
    { [kind |-> "json", ok |-> TRUE,
       photos |-> << [src |-> [s \in PexelsSizes |-> Url(i, s)]] >>]
        : i \in PhotoIds }

\* JavaScript truthiness of a url-or-null value
Truthy(v) == v # Null /\ v # EmptyString

(***************************************************************************)
(* Pure pieces of the code.                                                 *)
(***************************************************************************)
\* String.prototype.toLowerCase on the characters used
LowerChar(c) ==
    CASE c = "T" -> "t" [] c = "R" -> "r" [] c = "U" -> "u" [] c = "E" -> "e"
      [] OTHER -> c
toLowerCase(s) == [k \in 1..Len(s) |-> LowerChar(s[k])]

\* server.js:112,115  forceRefresh = 'false' by default;
\*                    shouldRefresh = forceRefresh.toLowerCase() === 'true'
shouldRefreshOf(forceRefresh) ==
    LET given == IF forceRefresh = Null THEN <<"f","a","l","s","e">>
                 ELSE forceRefresh
    IN  toLowerCase(given) = <<"t","r","u","e">>

\* needsFetch with the age test made non-strict
needsFetch_AtLeast(shouldRefresh, image, currentTime, fetchTime) ==
    shouldRefresh \/ ~Truthy(image) \/ (currentTime - fetchTime) >= cacheDuration

\* needsFetch without the age test
needsFetch_NoExpiry(shouldRefresh, image, currentTime, fetchTime) ==
    shouldRefresh \/ ~Truthy(image)

\* server.js:119  the condition under which the handler fetches
needsFetch(shouldRefresh, image, currentTime, fetchTime) ==
    shouldRefresh \/ ~Truthy(image) \/ (currentTime - fetchTime) > cacheDuration

\* server.js:142  the `cached` field of a success response
cachedFlag(shouldRefresh, currentTime, fetchTime) ==
    ~shouldRefresh /\ (currentTime - fetchTime) <= cacheDuration

\* Date.prototype.toISOString, as the fields of "YYYY-MM-DDTHH:mm:ss.sssZ"
\* (the calendar date is kept as the day number since the epoch)
toISOString(t) ==
    [ day |-> t \div 86400000,
      hh  |-> (t % 86400000) \div 3600000,
      mm  |-> (t % 3600000) \div 60000,
      ss  |-> (t % 60000) \div 1000,
      ms  |-> t % 1000 ]

\* server.js:71  data.photos?.[0]?.src?.[options.size] || null
imageUrlOf(data, size) ==
    IF Len(data.photos) = 0 THEN Null
    ELSE LET src == data.photos[1].src
         IN  IF size \in DOMAIN src /\ Truthy(src[size]) THEN src[size] ELSE Null

\* server.js:51-82  fetchMusicImage: every failure of the call is caught and
\* turned into a result with imageUrl null and an error message
fetchMusicImage(options, upstream) ==
    IF upstream.kind = "reject"
    THEN [imageUrl |-> Null, queryUsed |-> options.query, error |-> "fetch failed"]
    ELSE IF ~upstream.ok
    THEN [imageUrl |-> Null, queryUsed |-> options.query, error |-> "API error"]
    ELSE IF upstream.kind = "badjson"
    THEN [imageUrl |-> Null, queryUsed |-> options.query, error |-> "invalid json"]
    ELSE [imageUrl |-> imageUrlOf(upstream, options.size),
          queryUsed |-> options.query, error |-> Null]

\* what a call of fetchMusicImage can come back with, over all the upstream
\* can do.  Its callers read imageUrl only (server.js:94-95, 129-130), so
\* results that differ in `error` alone are one result here.
FetchResults(options) ==
    { [imageUrl  |-> fetchMusicImage(options, up).imageUrl,
       queryUsed |-> options.query] : up \in UpstreamOutcomes }

\* the values shouldRefresh takes over the forceRefresh parameters tried
ShouldRefreshValues == { shouldRefreshOf(f) : f \in ForceRefreshInputs }

(***************************************************************************)
(* State.                                                                   *)
(***************************************************************************)
VARIABLES
    now,            \* Date.now()
    cachedImage,    \* server.js:22
    lastFetchTime,  \* server.js:23
    lastQueryUsed,  \* server.js:24
    timerCalls,     \* number of refreshImage invocations suspended at line 88
    reqs,           \* /api/music-image handlers suspended at line 122
    sent,           \* the response sent by the step just taken, if any
    issued,         \* outbound image calls issued by the step just taken
    returned,       \* the fetch that returned in the step just taken, if any
    \* history, written by the model only
    lastSuccess,    \* url returned by the last completed fetch that had one
    written,        \* the (url, query, time) the last successful refresh assigned
    served,         \* imageUrl of the last 200 response, while no refresh has
                    \* assigned the slot since
    escaped,        \* an exception left refreshImage or the handler
    \* GET /api/artist/:id/playlists and GET /api/artist/:id/top
    pgRoute,        \* the route of the request being handled
    pgPc,           \* "idle", "fetching" (suspended at the await of fetch),
                    \* "done" (responded) or "rejected" (handler promise rejected)
    pgNextUrl,      \* nextUrl
    pgAll,          \* allPlaylists / allTopTracks
    pgCalls,        \* outbound calls issued for this request
    pgResp,         \* the response sent for this request
    pgPages,        \* history: the urls fetched and the page bodies received
                    \* for them, in arrival order
    \* the relay routes
    rlReq,          \* the request being handled: its path and query
    rlHandler,      \* the handler the router dispatched it to
    rlPc,           \* "idle", "fetching", "done" or "rejected"
    rlUrl,          \* the upstream url of the fetch in flight
    rlCalls,        \* outbound calls issued for this request
    rlAcc,          \* playlists (/fetch-playlists)
    rlAnswers,      \* history: the upstream answers received, in order
    rlResp,         \* the response sent for this request
    \* GET /api/analyze-audio
    auReq,          \* req.query of the request being handled
    auPc,           \* "idle", "headers" (suspended at the await of fetch),
                    \* "body" (suspended at the await of arrayBuffer) or "done"
    auArmed,        \* the abort timer is set and not cleared
    auElapsed,      \* milliseconds since the fetch was issued
    auCalls,        \* outbound calls issued for this request
    auResp,         \* the response sent for this request
    auBuffer,       \* history: the body received
    auAnalysis,     \* history: what analyzeAudioBuffer returned
    \* the rate limiter
    lmNow,          \* milliseconds since the middleware was created
    hits,           \* part_001:23  the Map from ip to hit count
    lmLast,         \* the request of the step just taken and what became of it
    admitted,       \* history: per ip, the requests passed on to a handler
                    \* since the last reset
    lmPassed        \* history: for the observed client, the number of
                    \* requests passed on at each of the last clock instants

slotVars == << cachedImage, lastFetchTime, lastQueryUsed >>
imageVars == << now, cachedImage, lastFetchTime, lastQueryUsed, timerCalls,
                reqs, sent, issued, returned, lastSuccess, written, served,
                escaped >>
pgVars == << pgRoute, pgPc, pgNextUrl, pgAll, pgCalls, pgResp, pgPages >>
relayVars == << rlReq, rlHandler, rlPc, rlUrl, rlCalls, rlAcc, rlAnswers, rlResp >>
audioVars == << auReq, auPc, auArmed, auElapsed, auCalls, auResp, auBuffer, auAnalysis >>
limiterVars == << lmNow, hits, lmLast, admitted >>
burstVars == << lmPassed >>
vars == << imageVars, pgVars, relayVars, audioVars, limiterVars, burstVars >>
\* what the steps of one part leave unchanged of the other parts
exceptImage == << pgVars, relayVars, audioVars, limiterVars, burstVars >>
exceptPaginator == << relayVars, audioVars, limiterVars, burstVars >>
exceptRelay == << imageVars, pgVars, audioVars, limiterVars, burstVars >>
exceptAudio == << imageVars, pgVars, relayVars, limiterVars, burstVars >>
exceptLimiter == << imageVars, pgVars, relayVars, audioVars, burstVars >>
exceptBurst == << imageVars, pgVars, relayVars, audioVars >>

\* the slot as a record, for the helpers below
Slot == [cachedImage |-> cachedImage, lastQueryUsed |-> lastQueryUsed,
         lastFetchTime |-> lastFetchTime]

\* musicQueries[Math.floor(Math.random() * musicQueries.length)]
QueryChoices == { musicQueries[k] : k \in QueryIdx }

\* the suspended invocations are kept as bags: their order carries nothing
Put(bag, e) == bag (+) SetToBag({e})
Take(bag, e) == bag (-) SetToBag({e})

(***************************************************************************)
(* The code that assigns the slot and builds the responses.                 *)
(***************************************************************************)
\* refreshImage assigning the slot whatever the result
refreshImage_AssignsAlways(newImage, randomQuery, t, slot) ==
    [slot  |-> [cachedImage   |-> newImage.imageUrl,
                lastQueryUsed |-> randomQuery,
                lastFetchTime |-> t],
     threw |-> FALSE]

\* refreshImage forgetting to assign lastQueryUsed
refreshImage_KeepsQuery(newImage, randomQuery, t, slot) ==
    IF Truthy(newImage.imageUrl)
    THEN [slot  |-> [cachedImage   |-> newImage.imageUrl,
                     lastQueryUsed |-> slot.lastQueryUsed,
                     lastFetchTime |-> t],
          threw |-> FALSE]
    ELSE [slot |-> slot, threw |-> FALSE]

\* refreshImage forgetting to assign lastFetchTime
refreshImage_KeepsTime(newImage, randomQuery, t, slot) ==
    IF Truthy(newImage.imageUrl)
    THEN [slot  |-> [cachedImage   |-> newImage.imageUrl,
                     lastQueryUsed |-> randomQuery,
                     lastFetchTime |-> slot.lastFetchTime],
          threw |-> FALSE]
    ELSE [slot |-> slot, threw |-> FALSE]

\* server.js:86-102  refreshImage after its await: the slot is assigned only
\* when the result carries an image url; the try/catch around the whole body
\* keeps every exception inside (threw is what leaves the function)
refreshImage(newImage, randomQuery, t, slot) ==
    IF Truthy(newImage.imageUrl)
    THEN [slot  |-> [cachedImage   |-> newImage.imageUrl,
                     lastQueryUsed |-> randomQuery,
                     lastFetchTime |-> t],
          threw |-> FALSE]
    ELSE [slot |-> slot, threw |-> FALSE]

\* afterFetch throwing on every failed fetch
afterFetch_ThrowsOnFailure(newImage, newQuery, currentTime, slot) ==
    IF Truthy(newImage.imageUrl)
    THEN [slot  |-> [cachedImage   |-> newImage.imageUrl,
                     lastQueryUsed |-> newQuery,
                     lastFetchTime |-> currentTime],
          threw |-> FALSE]
    ELSE [slot |-> slot, threw |-> TRUE]

\* afterFetch never throwing
afterFetch_NeverThrows(newImage, newQuery, currentTime, slot) ==
    IF Truthy(newImage.imageUrl)
    THEN [slot  |-> [cachedImage   |-> newImage.imageUrl,
                     lastQueryUsed |-> newQuery,
                     lastFetchTime |-> currentTime],
          threw |-> FALSE]
    ELSE [slot |-> slot, threw |-> FALSE]

\* afterFetch assigning the slot only while it is empty
afterFetch_KeepsCached(newImage, newQuery, currentTime, slot) ==
    IF Truthy(newImage.imageUrl) /\ ~Truthy(slot.cachedImage)
    THEN [slot  |-> [cachedImage   |-> newImage.imageUrl,
                     lastQueryUsed |-> newQuery,
                     lastFetchTime |-> currentTime],
          threw |-> FALSE]
    ELSE IF ~Truthy(slot.cachedImage)
    THEN [slot |-> slot, threw |-> TRUE]
    ELSE [slot |-> slot, threw |-> FALSE]

\* server.js:129-135  the handler after its await: assign the slot, or throw
\* when there is neither a new image nor a cached one
afterFetch(newImage, newQuery, currentTime, slot) ==
    IF Truthy(newImage.imageUrl)
    THEN [slot  |-> [cachedImage   |-> newImage.imageUrl,
                     lastQueryUsed |-> newQuery,
                     lastFetchTime |-> currentTime],
          threw |-> FALSE]
    ELSE IF ~Truthy(slot.cachedImage)
    THEN [slot |-> slot, threw |-> TRUE]
    ELSE [slot |-> slot, threw |-> FALSE]

\* server.js:138-144  res.json({success: true, ...})
successResponse(slot, shouldRefresh, currentTime) ==
    [ status |-> 200,
      body   |-> [ success     |-> TRUE,
                   imageUrl    |-> slot.cachedImage,
                   queryUsed   |-> slot.lastQueryUsed,
                   cached      |-> cachedFlag(shouldRefresh, currentTime,
                                              slot.lastFetchTime),
                   lastUpdated |-> toISOString(slot.lastFetchTime) ] ]

\* server.js:145-152  res.status(500).json({success: false, ...})
errorResponse(message, slot) ==
    [ status |-> 500,
      body   |-> [ success              |-> FALSE,
                   error                |-> message,
                   cachedImageAvailable |-> Truthy(slot.cachedImage),
                   cachedImageUrl       |-> IF Truthy(slot.cachedImage)
                                            THEN slot.cachedImage ELSE Null ] ]

\* a response together with what the model remembers of its request:
\* shouldRefresh and currentTime as the handler computed them, whether it
\* found the slot populated and which lastFetchTime it found on arrival, the
\* number of outbound calls it issued and whether its fetch came back without
\* an image
Sent(resp, req, calls, failed) ==
    [ status |-> resp.status, body |-> resp.body, req |-> req,
      calls |-> calls, fetchFailed |-> failed ]

NoResponse == [ status |-> 0 ]
NoReturn == [ kind |-> "none" ]
\* the fetch that returned: who awaited it, the url it brought (or null) and,
\* when it brought one, the query it was made with
Returned(kind, newImage, query) ==
    IF Truthy(newImage.imageUrl)
    THEN [kind |-> kind, imageUrl |-> newImage.imageUrl, query |-> query]
    ELSE [kind |-> kind, imageUrl |-> Null]

(***************************************************************************)
(* Initial state: the module has been evaluated.  setInterval is armed and  *)
(* the startup call refreshImage() (server.js:159) has issued its fetch and *)
(* is suspended at its await.                                               *)
(***************************************************************************)
ImageInit ==
    /\ now = StartTime
    /\ cachedImage = Null
    /\ lastFetchTime = 0
    /\ lastQueryUsed = EmptyString
    /\ timerCalls = 1
    /\ reqs = EmptyBag
    /\ sent = NoResponse
    /\ issued = 1
    /\ returned = NoReturn
    /\ lastSuccess = Null
    /\ written = Null
    /\ served = Null
    /\ escaped = FALSE

(***************************************************************************)
(* Actions.                                                                 *)
(*                                                                         *)
(* The random query (server.js:87, 121) and the request's `size` parameter  *)
(* are locals of a suspended invocation that nothing reads before its fetch *)
(* returns (the upstream, which is sent both, answers nondeterministically  *)
(* anyway): the model draws them in the step that first reads them.         *)
(***************************************************************************)
\* server.js:156  setInterval(refreshImage, refreshInterval): the callback
\* is due each time a whole interval has passed since the process started
TimerDue(t) == t > StartTime /\ (t - StartTime) % refreshInterval = 0

\* The wall clock advances.  When it reaches a due time of the interval
\* timer, refreshImage is invoked (server.js:85-92): it issues its fetch and
\* suspends.  That segment assigns nothing, so its order with respect to the
\* other callbacks running at the same clock value does not matter.
Tick ==
    /\ now < MaxNow
    /\ now' = now + TickMs
    /\ timerCalls' = IF TimerDue(now') THEN timerCalls + 1 ELSE timerCalls
    /\ issued' = IF TimerDue(now') THEN 1 ELSE 0
    /\ sent' = NoResponse
    /\ returned' = NoReturn
    /\ UNCHANGED << cachedImage, lastFetchTime, lastQueryUsed, reqs,
                    lastSuccess, written, served, escaped >>

\* server.js:88-102  the fetch of a suspended refreshImage returns
TimerFetchReturns ==
    \E randomQuery \in QueryChoices :
    \E newImage \in FetchResults([query |-> randomQuery,
                                  orientation |-> "landscape",
                                  size |-> "large2x"]) :
       LET r == refreshImage(newImage, randomQuery, now, Slot)
       IN  /\ timerCalls > 0
           /\ cachedImage' = r.slot.cachedImage
           /\ lastQueryUsed' = r.slot.lastQueryUsed
           /\ lastFetchTime' = r.slot.lastFetchTime
           /\ escaped' = (escaped \/ r.threw)
           /\ timerCalls' = timerCalls - 1
           /\ lastSuccess' = IF Truthy(newImage.imageUrl)
                             THEN newImage.imageUrl ELSE lastSuccess
           /\ written' = IF Truthy(newImage.imageUrl)
                         THEN << newImage.imageUrl, randomQuery, now >>
                         ELSE written
           /\ served' = IF Truthy(newImage.imageUrl) THEN Null ELSE served
           /\ sent' = NoResponse
           /\ issued' = 0
           /\ returned' = Returned("timer", newImage, randomQuery)
           /\ UNCHANGED << now, reqs >>

\* server.js:106-119,138-144  a request that needs no fetch is answered from
\* the slot in one go
RequestServedFromSlot ==
    /\ \E shouldRefresh \in ShouldRefreshValues :
         LET currentTime == now
             req == [shouldRefresh |-> shouldRefresh,
                     currentTime |-> currentTime,
                     arrival |-> [populated |-> Truthy(cachedImage),
                                  lastFetchTime |-> lastFetchTime]]
         IN  /\ ~needsFetch(shouldRefresh, cachedImage, currentTime,
                            lastFetchTime)
             /\ sent' = Sent(successResponse(Slot, shouldRefresh, currentTime),
                             req, 0, FALSE)
    /\ served' = sent'.body.imageUrl
    /\ issued' = 0
    /\ returned' = NoReturn
    /\ UNCHANGED << now, cachedImage, lastFetchTime, lastQueryUsed, timerCalls,
                    reqs, lastSuccess, written, escaped >>

\* server.js:106-127  a request that needs a fetch issues it and suspends
RequestStartsFetch ==
    /\ BagCardinality(reqs) < MaxInFlight
    /\ \E shouldRefresh \in ShouldRefreshValues :
         LET currentTime == now
         IN  /\ needsFetch(shouldRefresh, cachedImage, currentTime,
                           lastFetchTime)
             /\ reqs' = Put(reqs,
                   [shouldRefresh |-> shouldRefresh,
                    currentTime |-> currentTime,
                    arrival |-> [populated |-> Truthy(cachedImage),
                                 lastFetchTime |-> lastFetchTime]])
    /\ issued' = 1
    /\ sent' = NoResponse
    /\ returned' = NoReturn
    /\ UNCHANGED << now, cachedImage, lastFetchTime, lastQueryUsed, timerCalls,
                    lastSuccess, written, served, escaped >>

\* server.js:122-152  the fetch of a suspended handler returns: the slot is
\* assigned or the handler throws into its own catch; then it responds
RequestFetchReturns ==
    \E h \in BagToSet(reqs), newQuery \in QueryChoices, size \in SizeInputs :
    \E newImage \in FetchResults([query |-> newQuery,
                                  orientation |-> "landscape",
                                  size |-> size]) :
       LET r == afterFetch(newImage, newQuery, h.currentTime, Slot)
           failed == ~Truthy(newImage.imageUrl)
       IN  /\ cachedImage' = r.slot.cachedImage
           /\ lastQueryUsed' = r.slot.lastQueryUsed
           /\ lastFetchTime' = r.slot.lastFetchTime
           /\ sent' =
                IF r.threw
                THEN Sent(errorResponse("Failed to fetch initial image",
                                        r.slot), h, 1, failed)
                ELSE Sent(successResponse(r.slot, h.shouldRefresh,
                                          h.currentTime), h, 1, failed)
           /\ reqs' = Take(reqs, h)
           /\ lastSuccess' = IF Truthy(newImage.imageUrl)
                             THEN newImage.imageUrl ELSE lastSuccess
           /\ written' = IF Truthy(newImage.imageUrl)
                         THEN << newImage.imageUrl, newQuery, h.currentTime >>
                         ELSE written
           /\ served' = IF r.threw THEN served ELSE sent'.body.imageUrl
           /\ issued' = 0
           /\ returned' = Returned("request", newImage, newQuery)
           /\ UNCHANGED << now, timerCalls, escaped >>

(***************************************************************************)
(* Part 2: the paginated routes, GET /api/artist/:id/playlists and          *)
(* GET /api/artist/:id/top.  A handler shares no state with another, so one *)
(* request at a time is followed.                                           *)
(***************************************************************************)
Routes == {"playlists", "top"}
\* the artist id of the request
ArtistId == "27"

\* server.js:552, 610  the first url of a route, and the urls the upstream
\* hands out as `next` (index counts the pages)
PageUrl(route, index) ==
    << IF route = "playlists"
       THEN "https://api.deezer.com/artist/:id/playlists"
       ELSE "https://api.deezer.com/artist/:id/top?limit=50",
       ArtistId, index >>
PageIndex(url) == url[3]

\* the item array of a page: item j of the page served for url
PageItems(url, n) == [j \in 1..n |-> << url, j >>]

\* contentType.includes('application/json')
includesJson(contentType) == contentType = "application/json; charset=utf-8"

\* what the catalog upstream can answer to a GET of url: the fetch rejects,
\* or a response with a Content-Type header (or none: no contentType field),
\* a status and a body that parses to an object (json) or does not
DeezerAnswers(url) ==
    LET good == { [data |-> PageItems(url, n), next |-> nx] :
                    n \in 0..MaxItems,
                    nx \in { Null, EmptyString,
                             PageUrl(url[1], PageIndex(url) + 1),
                             PageUrl(url[1], 1) } }
                \cup
                { [data |-> PageItems(url, n)] : n \in 0..MaxItems }
        errorBody == [error |-> [type |-> "DataException"]]
    IN  { [kind |-> "reject"] }
        \cup { [kind |-> "response", contentType |-> "application/json; charset=utf-8",
                ok |-> TRUE, parses |-> TRUE, json |-> body] : body \in good }
        \cup { [kind |-> "response", contentType |-> "application/json; charset=utf-8",
                ok |-> TRUE, parses |-> TRUE, json |-> errorBody],
               [kind |-> "response", contentType |-> "application/json; charset=utf-8",
                ok |-> TRUE, parses |-> FALSE],
               [kind |-> "response", contentType |-> "application/json; charset=utf-8",
                ok |-> FALSE, parses |-> TRUE, json |-> errorBody],
               [kind |-> "response", contentType |-> "text/html",
                ok |-> TRUE, parses |-> FALSE],
               [kind |-> "response", contentType |-> "text/html",
                ok |-> TRUE, parses |-> TRUE,
                json |-> [data |-> PageItems(url, 1)]],
               [kind |-> "response",
                ok |-> TRUE, parses |-> TRUE,
                json |-> [data |-> PageItems(url, 1)]] }

\* contentType && contentType.includes('application/json') of a response
jsonTyped(answer) ==
    IF "contentType" \in DOMAIN answer THEN includesJson(answer.contentType)
    ELSE FALSE

\* property access on a parsed body: undefined when the key is absent
Get(obj, key) == IF key \in DOMAIN obj THEN obj[key] ELSE Undefined

\* JavaScript truthiness of a `next` value
TruthyNext(v) == v # Null /\ v # Undefined /\ v # EmptyString

\* Array.prototype.concat(value): the elements of an array are appended,
\* any other value is appended as one element
concat(all, value) ==
    IF value = Undefined THEN Append(all, Undefined) ELSE all \o value

\* server.js:557-564  the checks of the playlists route on a response;
\* server.js:615-617  those of the top route (no Content-Type check)
pageThrows(route, answer) ==
    IF answer.kind = "reject" THEN TRUE
    ELSE IF route = "playlists" /\ "contentType" \notin DOMAIN answer THEN TRUE
    ELSE IF route = "playlists" /\ ~includesJson(answer.contentType) THEN TRUE
    ELSE ~answer.ok \/ ~answer.parses

\* the accumulator replaced by the page instead of extended with it
accumulate_KeepsLastPage(all, data) == concat(<< >>, Get(data, "data"))

\* server.js:567, 620  allPlaylists.concat(data.data)
accumulate(all, data) == concat(all, Get(data, "data"))

\* server.js:570, 623  data.next || null
nextUrlOf(data) ==
    IF TruthyNext(Get(data, "next")) THEN Get(data, "next") ELSE Null

\* JSON.stringify of an array: undefined elements are written as null
jsonArray(all) == [k \in 1..Len(all) |-> IF all[k] = Undefined THEN Null ELSE all[k]]

PaginatorIdle ==
    /\ pgRoute = "playlists"
    /\ pgPc = "idle"
    /\ pgNextUrl = Null
    /\ pgAll = << >>
    /\ pgCalls = 0
    /\ pgResp = NoResponse
    /\ pgPages = << >>

\* server.js:548-555, 606-613  a request arrives: the accumulator is empty,
\* nextUrl is the route's first url, the loop is entered and the first fetch
\* is issued
PgRequest ==
    /\ pgPc # "fetching"
    /\ \E route \in Routes :
          /\ pgRoute' = route
          /\ pgNextUrl' = PageUrl(route, 1)
    /\ pgAll' = << >>
    /\ pgCalls' = 1
    /\ pgPc' = "fetching"
    /\ pgResp' = NoResponse
    /\ pgPages' = << >>
    /\ UNCHANGED imageVars

\* server.js:555-573, 613-626  the fetch returns with a page that passes the
\* checks: it is accumulated; with a next url the loop issues the next
\* fetch, without one the handler responds
PgPageArrives ==
    /\ pgPc = "fetching"
    /\ pgCalls <= MaxCalls
    /\ \E answer \in DeezerAnswers(pgNextUrl) :
          /\ ~pageThrows(pgRoute, answer)
          /\ LET data == answer.json
                 all == accumulate(pgAll, data)
                 nextUrl == nextUrlOf(data)
             IN  /\ pgAll' = all
                 /\ pgNextUrl' = nextUrl
                 /\ pgPages' = Append(pgPages, [url |-> pgNextUrl, body |-> data,
                                                jsonType |-> jsonTyped(answer),
                                                ok |-> answer.ok])
                 /\ IF nextUrl # Null
                    THEN /\ pgCalls' = pgCalls + 1
                         /\ pgPc' = "fetching"
                         /\ pgResp' = NoResponse
                    ELSE /\ pgCalls' = pgCalls
                         /\ pgPc' = "done"
                         /\ pgResp' = [status |-> 200,
                                       body |-> [data |-> jsonArray(all)]]
    /\ UNCHANGED << pgRoute, imageVars >>

\* server.js:1, 5  what the caller sees of a handler whose promise rejected
\* without a response having been sent.  The handlers are async functions
\* registered with app.get; the router either ignores the promise (the
\* request is left unanswered and the rejection is unhandled) or hands the
\* error to its default error handler, which answers 500 with an HTML page.
\* Which of the two happens depends on the installed router version.
RejectionOutcomes ==
    { NoResponse, [status |-> 500, contentType |-> "text/html"] }

\* server.js:555-566, 574-577, 613-619, 627-630  the fetch rejects or the
\* page fails a check: control passes to the catch block, whose first
\* statement reads `id`.  `id` is declared by `const { id } = req.params`
\* inside the try block and is not in scope in the catch block, so the
\* template literal throws a ReferenceError before res.status(500) is
\* reached: the handler's promise rejects and the handler sends no response.
PgPageFails ==
    /\ pgPc = "fetching"
    /\ pgCalls <= MaxCalls
    /\ \E answer \in DeezerAnswers(pgNextUrl) : pageThrows(pgRoute, answer)
    /\ pgPc' = "rejected"
    /\ pgResp' \in RejectionOutcomes
    /\ UNCHANGED << pgRoute, pgNextUrl, pgAll, pgCalls, pgPages, imageVars >>

(***************************************************************************)
(* Part 3: the relay routes of server.js: one handler per route, each       *)
(* forwarding the request to the catalog upstream and answering from what   *)
(* comes back.  A handler shares no state with another, so one request at   *)
(* a time is followed.  The two paginated routes are Part 2 and             *)
(* /api/music-image is Part 1.                                              *)
(***************************************************************************)
\* server.js:165-650  the relay handlers in the order of their registration
\* with app.get: the name is the path pattern as written in the source, the
\* pattern its segments
Handlers ==
    << [name |-> "/deezer-chart",                  pattern |-> << "deezer-chart" >>],
       [name |-> "/deezer-top-artists",            pattern |-> << "deezer-top-artists" >>],
       [name |-> "/search-artist",                 pattern |-> << "search-artist" >>],
       [name |-> "/fetch-playlists",               pattern |-> << "fetch-playlists" >>],
       [name |-> "/api/search/track",              pattern |-> << "api", "search", "track" >>],
       [name |-> "/api/playlist-tracks",           pattern |-> << "api", "playlist-tracks" >>],
       [name |-> "/api/search/album",              pattern |-> << "api", "search", "album" >>],
       [name |-> "/api/search/playlist",           pattern |-> << "api", "search", "playlist" >>],
       [name |-> "/api/search/user",               pattern |-> << "api", "search", "user" >>],
       [name |-> "/api/search/artist",             pattern |-> << "api", "search", "artist" >>],
       [name |-> "/api/album/:id",                 pattern |-> << "api", "album", ":id" >>],
       [name |-> "/fetch-chart",                   pattern |-> << "fetch-chart" >>],
       [name |-> "/api/artist/:artistId/albums",   pattern |-> << "api", "artist", ":artistId", "albums" >>],
       [name |-> "/api/chart",                     pattern |-> << "api", "chart" >>],
       [name |-> "/api/editorial",                 pattern |-> << "api", "editorial" >>],
       [name |-> "/api/chart/:genreId",            pattern |-> << "api", "chart", ":genreId" >>],
       [name |-> "/api/fetchTracks/album/:id",     pattern |-> << "api", "fetchTracks", "album", ":id" >>],
       [name |-> "/api/fetchTracks/playlist/:id",  pattern |-> << "api", "fetchTracks", "playlist", ":id" >>],
       [name |-> "/api/artist/:id",                pattern |-> << "api", "artist", ":id" >>],
       [name |-> "/api/artist/:id/albums",         pattern |-> << "api", "artist", ":id", "albums" >>],
       [name |-> "/api/artist/:id/related",        pattern |-> << "api", "artist", ":id", "related" >>],
       [name |-> "/api/artist/:id/radio",          pattern |-> << "api", "artist", ":id", "radio" >>],
       [name |-> "/api/fetchAlbumTracks/:albumId", pattern |-> << "api", "fetchAlbumTracks", ":albumId" >>] >>

\* a named segment of a path pattern
IsParam(segment) == segment \in {":id", ":artistId", ":genreId", ":albumId"}

\* the values a path parameter takes in the modelled requests, and the
\* characters of each
PathParams == {"12", "ab"}
Chars(s) == IF s = "12" THEN << "1", "2" >> ELSE << "a", "b" >>
Digits == {"0", "1", "2", "3", "4", "5", "6", "7", "8", "9"}

\* the router's match of a pattern against the segments of a request path
Matches(pattern, path) ==
    /\ Len(pattern) = Len(path)
    /\ \A k \in 1..Len(pattern) : IsParam(pattern[k]) \/ pattern[k] = path[k]

\* the paths of a pattern: each named segment replaced by a parameter value
PathsOf(pattern) ==
    IF \E k \in 1..Len(pattern) : IsParam(pattern[k])
    THEN { [k \in 1..Len(pattern) |-> IF IsParam(pattern[k]) THEN p ELSE pattern[k]] :
             p \in PathParams }
    ELSE { pattern }

\* the router hands a request to the first registered handler whose pattern
\* matches; no relay handler calls next(), so no later handler sees it
Dispatch(path) ==
    LET first == CHOOSE k \in 1..Len(Handlers) :
                    /\ Matches(Handlers[k].pattern, path)
                    /\ \A j \in 1..(k - 1) : ~Matches(Handlers[j].pattern, path)
    IN  Handlers[first]

\* req.params of the dispatched handler: the value of its named segment
ParamOf(handler, path) ==
    LET k == CHOOSE k \in 1..Len(path) : IsParam(handler.pattern[k])
    IN  path[k]

HasParam(handler) == \E k \in 1..Len(handler.pattern) : IsParam(handler.pattern[k])

\* req.query: an object with the keys the request carries
NoQuery == << >>
QueriesOf(pattern) ==
    IF pattern = << "api", "playlist-tracks" >>
    THEN { NoQuery, [id |-> ""], [id |-> "12"] }
    ELSE IF pattern[1] = "search-artist" \/ (Len(pattern) = 3 /\ pattern[2] = "search")
    THEN { NoQuery, [q |-> "eminem"] }
    ELSE { NoQuery }

\* the inbound requests
RelayRequests ==
    UNION { { [path |-> path, query |-> query] :
                path \in PathsOf(Handlers[k].pattern),
                query \in QueriesOf(Handlers[k].pattern) } :
            k \in 1..Len(Handlers) }

Has(obj, key) == key \in DOMAIN obj

\* the upstream path a handler fetches: the template of the source's url
\* with the request's value substituted (k counts the calls of
\* /fetch-playlists, whose ids are fixed in the source)
FetchPlaylistIds == << "908622995", "908622981", "987654321" >>
UpstreamUrl(handler, req, k) ==
    LET h == handler.name
        p == IF HasParam(handler) THEN ParamOf(handler, req.path) ELSE ""
        q == IF Has(req.query, "q") THEN req.query.q ELSE "undefined"
    IN  CASE h = "/deezer-chart"                  -> << "/chart/0/artists", "" >>
          [] h = "/deezer-top-artists"            -> << "/artist/27/top", "" >>
          [] h = "/search-artist"                 ->
                << "/search?q=", IF Has(req.query, "q") /\ req.query.q # ""
                                 THEN req.query.q ELSE "eminem" >>
          [] h = "/fetch-playlists"               -> << "/playlist/", FetchPlaylistIds[k] >>
          [] h = "/api/search/track"              -> << "/search/track?q=", q >>
          [] h = "/api/playlist-tracks"           -> << "/playlist/:id/tracks", req.query.id >>
          [] h = "/api/search/album"              -> << "/search/album?q=", q >>
          [] h = "/api/search/playlist"           -> << "/search/playlist?q=", q >>
          [] h = "/api/search/user"               -> << "/search/user?q=", q >>
          [] h = "/api/search/artist"             -> << "/search/artist?q=", q >>
          [] h = "/api/album/:id"                 -> << "/album/", p >>
          [] h = "/fetch-chart"                   -> << "/artist/27/playlists", "" >>
          [] h = "/api/artist/:artistId/albums"   -> << "/artist/:id/albums", p >>
          [] h = "/api/chart"                     -> << "/chart", "" >>
          [] h = "/api/editorial"                 -> << "/editorial", "" >>
          [] h = "/api/chart/:genreId"            -> << "/chart/", p >>
          [] h = "/api/fetchTracks/album/:id"     -> << "/album/", p >>
          [] h = "/api/fetchTracks/playlist/:id"  -> << "/playlist/", p >>
          [] h = "/api/artist/:id"                -> << "/artist/", p >>
          [] h = "/api/artist/:id/albums"         -> << "/artist/:id/albums", p >>
          [] h = "/api/artist/:id/related"        -> << "/artist/:id/related", p >>
          [] h = "/api/artist/:id/radio"          -> << "/artist/:id/radio", p >>
          [] h = "/api/fetchAlbumTracks/:albumId" -> << "/album/:id/tracks", p >>

\* the items of the catalog's answers.  A track and an album carry more
\* fields than any route copies.
ItemIds == {1, 2}
Track(k) ==
    [id |-> k, readable |-> TRUE, title |-> "title", duration |-> 200 + k,
     rank |-> 900000 + k, preview |-> "https://cdn-preview.dzcdn.net/stream",
     artist |-> [id |-> 10 + k, name |-> "name", link |-> "https://www.deezer.com/artist"],
     album |-> [id |-> 20 + k, title |-> "title", cover |-> "https://api.deezer.com/album/image",
                cover_small |-> "small", cover_medium |-> "medium", cover_big |-> "big"]]
Album(k) ==
    [id |-> 20 + k, title |-> "title", release_date |-> << 2020 + k, 1, 1 >>,
     record_type |-> "album"]

ItemLists == UNION { [1..n -> ItemIds] : n \in 0..MaxItems }
\* the album lists of an artist: those, and some of three albums of three
\* release dates in every relative order
AlbumLists ==
    ItemLists \cup { << 1, 2, 3 >>, << 1, 3, 2 >>, << 2, 1, 3 >>, << 3, 1, 2 >>,
                     << 3, 2, 1 >>, << 3, 1, 3 >> }
Tracks(l) == [j \in 1..Len(l) |-> Track(l[j])]
Albums(l) == [j \in 1..Len(l) |-> Album(l[j])]

\* the body the catalog answers with when it has nothing for the url
ErrorBody == [error |-> [type |-> "DataException", message |-> "no data", code |-> 800]]

\* the parsed bodies the catalog can answer with for a url
DeezerBodies(url) ==
    LET t == url[1]
    IN  IF t = "/artist/:id/albums"
        THEN { [data |-> Albums(l), total |-> Len(l)] : l \in AlbumLists } \cup { ErrorBody }
        ELSE IF t = "/playlist/"
        THEN { [id |-> 12, title |-> "title", picture_medium |-> "medium",
                creator |-> [id |-> 5, name |-> "name"],
                tracks |-> [data |-> Tracks(l)]] : l \in ItemLists }
             \cup { [id |-> 12, title |-> "title", picture_medium |-> "medium",
                     tracks |-> [data |-> Tracks(<< 1 >>)]],
                    [id |-> 12, title |-> "title"], ErrorBody }
        ELSE IF t = "/album/"
        THEN { [id |-> 12, title |-> "title", tracks |-> [data |-> Tracks(l)]] :
                 l \in ItemLists }
             \cup { [id |-> 12, title |-> "title"], ErrorBody }
        ELSE { [data |-> Tracks(l), total |-> Len(l)] : l \in ItemLists } \cup { ErrorBody }

\* the status codes of the catalog's answers
UpstreamStatuses == {200, 404, 503}

\* what the catalog can answer to a GET of url: the fetch rejects, or a
\* response with a status, a Content-Type header (or none: no contentType
\* field) and a body that parses as JSON (json) or does not
RelayAnswers(url) ==
    { [kind |-> "reject"] }
    \cup { [kind |-> "response", status |-> 200,
            contentType |-> "application/json; charset=utf-8",
            parses |-> TRUE, json |-> body] : body \in DeezerBodies(url) }
    \cup { [kind |-> "response", status |-> s,
            contentType |-> "application/json; charset=utf-8",
            parses |-> TRUE, json |-> ErrorBody] : s \in UpstreamStatuses \ {200} }
    \cup { [kind |-> "response", status |-> s, contentType |-> "text/html",
            parses |-> FALSE] : s \in UpstreamStatuses }
    \cup { [kind |-> "response", status |-> 200,
            contentType |-> "application/json; charset=utf-8", parses |-> FALSE],
           [kind |-> "response", status |-> 200,
            parses |-> TRUE, json |-> ErrorBody] }

\* response.ok
ok(answer) == answer.status >= 200 /\ answer.status <= 299

\* the outcome of a try block: a response sent, or an error thrown into the
\* catch block
Respond(status, body) == [kind |-> "respond", resp |-> [status |-> status, body |-> body]]
Throw == [kind |-> "throw"]

\* an object literal whose values are read from obj: a key whose value is
\* undefined (absent in obj) is left out by JSON.stringify
Pick(obj, keys) == [k \in (keys \cap DOMAIN obj) |-> obj[k]]

\* every field of the upstream track copied
formatTrack_CopiesAll(track) == track

\* server.js:270-285  the object built for one track
formatTrack(track) ==
    Pick(track, {"id", "title", "duration", "preview"})
    @@ [artist |-> Pick(track.artist, {"id", "name"}),
        album |-> Pick(track.album, {"id", "title", "cover_small", "cover_medium"})]

\* track.artist.id, track.album.id: a TypeError when artist or album is
\* undefined
formatThrows(track) == ~Has(track, "artist") \/ ~Has(track, "album")

\* new Date(release_date) for a date written YYYY-MM-DD, as a day count
\* that orders dates as their epoch milliseconds do
DateValue(date) == (date[1] * 12 + (date[2] - 1)) * 31 + (date[3] - 1)

\* a comparator that puts the oldest album first
compareAlbums_OldestFirst(a, b) == DateValue(a.release_date) - DateValue(b.release_date)

\* server.js:376-378  (a, b) => new Date(b.release_date) - new Date(a.release_date)
compareAlbums(a, b) == DateValue(b.release_date) - DateValue(a.release_date)

RECURSIVE InsertAlbum(_, _)
\* x placed behind every element that does not compare greater than it
InsertAlbum(sorted, x) ==
    IF sorted = << >> THEN << x >>
    ELSE IF compareAlbums(sorted[1], x) <= 0
         THEN << sorted[1] >> \o InsertAlbum(Tail(sorted), x)
         ELSE << x >> \o sorted

RECURSIVE sortAlbums(_)
\* Array.prototype.sort with the comparator: a stable sort
sortAlbums(albums) ==
    IF albums = << >> THEN << >>
    ELSE InsertAlbum(sortAlbums(SubSeq(albums, 1, Len(albums) - 1)),
                     albums[Len(albums)])

\* server.js:482-487  playlistInfo
playlistInfo(data) ==
    Pick(data, {"id", "title"})
    @@ (IF Has(data, "picture_medium") THEN [cover |-> data.picture_medium] ELSE << >>)
    @@ (IF Has(data, "creator") /\ Has(data.creator, "name")
        THEN [creator |-> data.creator.name] ELSE << >>)

\* data.tracks.data is there (an array, empty or not, is truthy)
hasTracks(data) == Has(data, "tracks") /\ Has(data.tracks, "data")

\* the handlers that test the Content-Type header and response.ok
TypeChecked == {"/api/artist/:id", "/api/artist/:id/albums", "/api/artist/:id/related"}
\* the handlers that test response.ok only
OkChecked == {"/deezer-chart", "/deezer-top-artists", "/fetch-chart", "/api/chart",
              "/api/artist/:id/radio"}
\* the handlers whose catch block reads `id`, declared inside their try block
CatchReadsId == {"/api/artist/:id", "/api/artist/:id/albums", "/api/artist/:id/related",
                 "/api/artist/:id/radio"}

hasJsonType(answer) == Has(answer, "contentType") /\ includesJson(answer.contentType)

\* the upstream's status handed on with its body
passThrough_RelaysStatus(answer) ==
    IF ~answer.parses THEN Throw ELSE Respond(answer.status, answer.json)

\* const data = await response.json(); res.json(data)
passThrough(answer) ==
    IF ~answer.parses THEN Throw ELSE Respond(200, answer.json)

\* the try block of a handler from the point where its fetch settles
tryBlock(h, answer) ==
    IF answer.kind = "reject" THEN Throw
    ELSE IF h \in TypeChecked
    THEN \* server.js:508-518, 531-541, 587-597
         IF ~hasJsonType(answer) THEN Throw
         ELSE IF ~ok(answer) THEN Throw
         ELSE passThrough(answer)
    ELSE IF h \in OkChecked
    THEN \* server.js:169-174, 186-191, 354-359, 397-401, 639-643
         IF ~ok(answer) THEN Throw ELSE passThrough(answer)
    ELSE IF h = "/api/playlist-tracks"
    THEN \* server.js:262-288
         IF ~ok(answer) THEN Throw
         ELSE IF ~answer.parses THEN Throw
         ELSE IF ~Has(answer.json, "data") THEN Throw
         ELSE IF \E j \in 1..Len(answer.json.data) : formatThrows(answer.json.data[j])
         THEN Throw
         ELSE Respond(200, [tracks |-> [j \in 1..Len(answer.json.data) |->
                                          formatTrack(answer.json.data[j])]])
    ELSE IF h = "/api/artist/:artistId/albums"
    THEN \* server.js:372-386
         IF ~answer.parses THEN Throw
         ELSE IF Has(answer.json, "data")
         THEN Respond(200, [success |-> TRUE, albums |-> sortAlbums(answer.json.data)])
         ELSE Respond(404, [success |-> FALSE, message |-> "No albums found"])
    ELSE IF h = "/api/fetchTracks/album/:id"
    THEN \* server.js:436-442
         IF ~answer.parses THEN Throw
         ELSE IF hasTracks(answer.json)
         THEN Respond(200, answer.json.tracks.data)
         ELSE Respond(404, [message |-> "Tracks not found for this album"])
    ELSE IF h = "/api/fetchTracks/playlist/:id"
    THEN \* server.js:461-488
         IF ~ok(answer)
         THEN IF ~answer.parses THEN Throw
              ELSE Respond(answer.status,
                           [message |-> "Error from Deezer API",
                            deezerError |-> IF Has(answer.json, "error")
                                            THEN answer.json.error ELSE answer.json])
         ELSE IF ~answer.parses THEN Throw
         ELSE IF ~hasTracks(answer.json)
         THEN Respond(404, [message |-> "No tracks found for this playlist",
                            playlistData |-> answer.json])
         ELSE Respond(200, [tracks |-> answer.json.tracks.data,
                            playlistInfo |-> playlistInfo(answer.json)])
    ELSE \* server.js:203-205, 243-245, 299-301, 310-312, 320-322, 330-332,
         \* 340-342, 410-412, 422-424, 653-655
         passThrough(answer)

\* the body of the 500 a catch block sends
catchBody(h) ==
    IF h = "/api/artist/:artistId/albums"
    THEN [success |-> FALSE, message |-> "Internal server error"]
    ELSE IF h = "/api/fetchTracks/album/:id"
    THEN [message |-> "Error fetching album tracks", error |-> "error.message"]
    ELSE IF h = "/api/fetchTracks/playlist/:id"
    THEN [message |-> "Internal server error"]
    ELSE [error |-> "Failed to fetch"]

\* Number(id) is NaN: some character of the id is not a digit
isNaN(id) == \E k \in 1..Len(Chars(id)) : Chars(id)[k] \notin Digits

\* the id of /api/fetchTracks/playlist/:id not tested
invalid_QueryIdOnly(h, req) ==
    h = "/api/playlist-tracks" /\ (~Has(req.query, "id") \/ req.query.id = "")

\* server.js:254-257, 450-455  the checks made before any fetch
invalid(h, req) ==
    IF h = "/api/playlist-tracks"
    THEN ~Has(req.query, "id") \/ req.query.id = ""
    ELSE IF h = "/api/fetchTracks/playlist/:id"
    THEN isNaN(req.path[4])
    ELSE FALSE

\* the body of the 400 sent for a request that fails them
badRequestBody(h) ==
    IF h = "/api/playlist-tracks"
    THEN [error |-> "Playlist ID is required"]
    ELSE [message |-> "Invalid playlist ID"]

RelayIdle ==
    /\ rlReq = [path |-> << "deezer-chart" >>, query |-> NoQuery]
    /\ rlHandler = "/deezer-chart"
    /\ rlPc = "idle"
    /\ rlUrl = Null
    /\ rlCalls = 0
    /\ rlAcc = << >>
    /\ rlAnswers = << >>
    /\ rlResp = NoResponse

\* a request arrives and is dispatched; the handler runs up to its first
\* await: a request that fails validation is answered 400, any other has its
\* (first) fetch issued
RelayRequest ==
    /\ rlPc # "fetching"
    /\ \E req \in RelayRequests :
          LET handler == Dispatch(req.path)
              h == handler.name
          IN  /\ rlReq' = req
              /\ rlHandler' = h
              /\ IF invalid(h, req)
                 THEN /\ rlPc' = "done"
                      /\ rlResp' = [status |-> 400, body |-> badRequestBody(h)]
                      /\ rlUrl' = Null
                      /\ rlCalls' = 0
                 ELSE /\ rlPc' = "fetching"
                      /\ rlResp' = NoResponse
                      /\ rlUrl' = UpstreamUrl(handler, req, 1)
                      /\ rlCalls' = 1
    /\ rlAcc' = << >>
    /\ rlAnswers' = << >>

\* a loop that goes on to the next id after a failed fetch
fetchPlaylistsStep_SkipsFailures(answer, acc, calls) ==
    LET failed == IF answer.kind = "reject" THEN TRUE
                  ELSE ~ok(answer) \/ ~answer.parses
        pushed == IF failed THEN acc ELSE Append(acc, answer.json)
    IN  IF calls < Len(FetchPlaylistIds)
        THEN [kind |-> "next", acc |-> pushed]
        ELSE Respond(200, pushed)

\* server.js:218-233  /fetch-playlists: one fetch per id of the list, each
\* answer pushed; any failure ends the loop in the catch block
fetchPlaylistsStep(answer, acc, calls) ==
    IF answer.kind = "reject" THEN Throw
    ELSE IF ~ok(answer) THEN Throw
    ELSE IF ~answer.parses THEN Throw
    ELSE IF calls < Len(FetchPlaylistIds)
    THEN [kind |-> "next", acc |-> Append(acc, answer.json)]
    ELSE Respond(200, Append(acc, answer.json))

\* the fetch in flight settles and the handler runs on: it responds, throws
\* into its catch block, or (/fetch-playlists) issues its next fetch.  A
\* catch block that reads `id` throws in its turn and the handler sends
\* nothing.
RelayFetchSettles ==
    /\ rlPc = "fetching"
    /\ \E answer \in RelayAnswers(rlUrl) :
          LET result == IF rlHandler = "/fetch-playlists"
                        THEN fetchPlaylistsStep(answer, rlAcc, rlCalls)
                        ELSE tryBlock(rlHandler, answer)
          IN  /\ rlAnswers' = Append(rlAnswers, answer)
              /\ IF result.kind = "next"
                 THEN /\ rlAcc' = result.acc
                      /\ rlCalls' = rlCalls + 1
                      /\ rlUrl' = UpstreamUrl(Dispatch(rlReq.path), rlReq, rlCalls + 1)
                      /\ rlPc' = "fetching"
                      /\ rlResp' = NoResponse
                 ELSE IF result.kind = "respond"
                 THEN /\ rlResp' = result.resp
                      /\ rlPc' = "done"
                      /\ UNCHANGED << rlAcc, rlCalls, rlUrl >>
                 ELSE IF rlHandler \in CatchReadsId
                 THEN /\ rlResp' \in RejectionOutcomes
                      /\ rlPc' = "rejected"
                      /\ UNCHANGED << rlAcc, rlCalls, rlUrl >>
                 ELSE /\ rlResp' = [status |-> 500, body |-> catchBody(rlHandler)]
                      /\ rlPc' = "done"
                      /\ UNCHANGED << rlAcc, rlCalls, rlUrl >>
    /\ UNCHANGED << rlReq, rlHandler >>

(***************************************************************************)
(* Part 4: GET /api/analyze-audio and analyzeAudioBuffer (part_001).        *)
(***************************************************************************)
\* part_001:62  setTimeout(() => controller.abort(), 5000)
fetchTimeout == 5000
\* part_001:98  frequencyBands
frequencyBands == 32
\* part_001:121  sampleRate
sampleRate == 44100

\* the clock of one request advances in steps of half the timeout
AudioTickMs == fetchTimeout \div 2

\* a JavaScript number as the quotient num/den of two integers, den >= 0, in
\* lowest terms; 0/0 is NaN and 1/0 is Infinity.  The rounding of the
\* quotients to doubles is not represented.
RECURSIVE Gcd(_, _)
Gcd(a, b) == IF b = 0 THEN a ELSE Gcd(b, a % b)
Number(num, den) ==
    LET g == Gcd(num, den)
    IN  IF g = 0 THEN [num |-> 0, den |-> 0]
        ELSE [num |-> num \div g, den |-> den \div g]
NaN == Number(0, 0)
Zero == Number(0, 1)
One == Number(1, 1)
IsNaN(x) == x.num = 0 /\ x.den = 0

\* x / y for non-negative numbers
Divide(x, y) == Number(x.num * y.den, x.den * y.num)

\* x > y; false when either is NaN
Greater(x, y) ==
    /\ ~IsNaN(x) /\ ~IsNaN(y)
    /\ IF x.den = 0 THEN y.den # 0
       ELSE y.den # 0 /\ x.num * y.den > y.num * x.den

\* Math.max(...values): NaN when any value is NaN
MathMax(values) ==
    IF \E k \in 1..Len(values) : IsNaN(values[k]) THEN NaN
    ELSE CHOOSE x \in { values[k] : k \in 1..Len(values) } :
            \A k \in 1..Len(values) : ~Greater(values[k], x)

Abs(n) == IF n < 0 THEN -n ELSE n
Min(a, b) == IF a < b THEN a ELSE b

\* part_001:109-113  the sum of |data[i] - 128| over start <= i < end, in
\* units of 1/128 (data is indexed from 0 in the source, from 1 here)
RECURSIVE energySum(_, _, _)
energySum(data, i, end) ==
    IF i >= end THEN 0
    ELSE IF i + 1 = end THEN Abs(data[i + 1] - 128)
    ELSE LET mid == (i + end) \div 2
         IN  energySum(data, i, mid) + energySum(data, mid, end)

\* part_001:104-115  results[band]
bandValue(data, band, samplesPerBand) ==
    LET start == band * samplesPerBand
        end == Min(start + samplesPerBand, Len(data))
    IN  Number(energySum(data, start, end), 128 * (end - start))

\* the results returned without being divided by their maximum
normalize_Skipped(results, max) == results

\* part_001:120  max > 0 ? results.map(val => val / max) : results
normalize(results, max) ==
    IF Greater(max, Zero)
    THEN [k \in 1..Len(results) |-> Divide(results[k], max)]
    ELSE results

\* part_001:95-125  analyzeAudioBuffer
analyzeAudioBuffer(data) ==
    LET samplesPerBand == Len(data) \div frequencyBands
        results == [k \in 1..frequencyBands |-> bandValue(data, k - 1, samplesPerBand)]
        max == MathMax(results)
    IN  [frequencies |-> normalize(results, max),
         sampleRate |-> sampleRate,
         duration |-> Number(Len(data), sampleRate)]

\* the urls of the modelled requests, as the pieces the URL parser sees; the
\* empty string has no piece
AudioUrls ==
    { << >>,
      << "audio.mp3" >>,
      << "https", ":", "//" >>,
      << "https", ":", "//", "cdn.example", "/audio.mp3" >>,
      << "ftp", ":", "//", "files.example", "/audio.mp3" >> }

\* part_001:127-134  isValidUrl: new URL(url) does not throw.  Without a base
\* a url parses when it starts with a scheme and ':'; a url of a scheme with
\* an authority needs a host
isValidUrl(url) ==
    /\ Len(url) >= 2
    /\ url[1] \in {"http", "https", "ftp"}
    /\ url[2] = ":"
    /\ Len(url) >= 4

\* the protocols the imported fetch sends a request for
fetchable(url) == url[1] \in {"http", "https"}

\* req.query of the modelled requests: no url, or one of AudioUrls
AudioQueries == { NoQuery } \cup { [url |-> u] : u \in AudioUrls }

\* part_001:55-57  !audioUrl || !isValidUrl(audioUrl)
audioInvalid(query) ==
    IF ~Has(query, "url") THEN TRUE
    ELSE IF query.url = << >> THEN TRUE
    ELSE ~isValidUrl(query.url)

\* the bodies the audio upstream can deliver: bytes 0..255
BufferLengths == {0, 1, 31, 32, 33, 64, 70, 3200}
ByteValues == {0, 64, 128, 255}
AudioBuffers ==
    \* every byte the same
    { [i \in 1..n |-> b] : n \in BufferLengths, b \in ByteValues }
    \* silence (128) but for one byte
    \cup { [i \in 1..n |-> IF i = p THEN b ELSE 128] :
             n \in BufferLengths \ {0}, p \in {1, 32, 64, 70}, b \in {0, 255} }
    \* a ramp
    \cup { [i \in 1..n |-> (i * 37) % 256] : n \in BufferLengths }

\* res.json of a number: NaN and Infinity are written as null
jsonNumber(x) == IF x.den = 0 THEN Null ELSE x

\* part_001:79-82  { success: true, ...analysis } as serialised
audioSuccessBody(analysis) ==
    [success |-> TRUE,
     frequencies |-> [k \in 1..Len(analysis.frequencies) |->
                        jsonNumber(analysis.frequencies[k])],
     sampleRate |-> analysis.sampleRate,
     duration |-> jsonNumber(analysis.duration)]

\* part_001:84-90  the catch block (details depends on NODE_ENV and is left out)
audioErrorResponse == [status |-> 500, body |-> [error |-> "Audio analysis failed"]]

AudioIdle ==
    /\ auReq = NoQuery
    /\ auPc = "idle"
    /\ auArmed = FALSE
    /\ auElapsed = 0
    /\ auCalls = 0
    /\ auResp = NoResponse
    /\ auBuffer = << >>
    /\ auAnalysis = Null

\* part_001:53-66  a request arrives: an invalid url is answered 400; for any
\* other the abort timer is armed and the fetch issued
AudioRequest ==
    /\ auPc \notin {"headers", "body"}
    /\ \E query \in AudioQueries :
          /\ auReq' = query
          /\ IF audioInvalid(query)
             THEN /\ auPc' = "done"
                  /\ auResp' = [status |-> 400, body |-> [error |-> "Invalid audio URL"]]
                  /\ auArmed' = FALSE
                  /\ auCalls' = 0
             ELSE /\ auPc' = "headers"
                  /\ auResp' = NoResponse
                  /\ auArmed' = TRUE
                  /\ auCalls' = 1
    /\ auElapsed' = 0
    /\ auBuffer' = << >>
    /\ auAnalysis' = Null

\* time passes while the handler waits.  An armed timer that is due fires
\* before more time passes.
AudioTick ==
    /\ auPc \in {"headers", "body"}
    /\ auElapsed < MaxAudioTicks * AudioTickMs
    /\ ~(auArmed /\ auElapsed >= fetchTimeout)
    /\ auElapsed' = auElapsed + AudioTickMs
    /\ UNCHANGED << auReq, auPc, auArmed, auCalls, auResp, auBuffer, auAnalysis >>

\* part_001:62, 84-90  the timer fires: controller.abort() rejects the fetch,
\* the catch block answers 500
AudioTimeout ==
    /\ auPc = "headers"
    /\ auArmed
    /\ auElapsed >= fetchTimeout
    /\ auArmed' = FALSE
    /\ auPc' = "done"
    /\ auResp' = audioErrorResponse
    /\ UNCHANGED << auReq, auElapsed, auCalls, auBuffer, auAnalysis >>

\* part_001:64-74  the fetch settles before the timer fires: it rejects, or
\* resolves with the response's status and headers.  The timer is cleared;
\* a non-success status is thrown, otherwise the handler awaits the body
AudioFetchSettles ==
    /\ auPc = "headers"
    /\ \E outcome \in {"reject", "not ok", "ok"} :
          /\ (outcome # "reject") => fetchable(auReq.url)
          /\ IF outcome = "ok"
             THEN /\ auPc' = "body"
                  /\ auResp' = NoResponse
                  /\ auArmed' = FALSE
             ELSE /\ auPc' = "done"
                  /\ auResp' = audioErrorResponse
                  /\ auArmed' = IF outcome = "reject" THEN auArmed ELSE FALSE
    /\ UNCHANGED << auReq, auElapsed, auCalls, auBuffer, auAnalysis >>

\* part_001:74-82  the body arrives whole and is analysed
AudioBodyArrives ==
    /\ auPc = "body"
    /\ \E buffer \in AudioBuffers :
          LET analysis == analyzeAudioBuffer(buffer)
          IN  /\ auBuffer' = buffer
              /\ auAnalysis' = analysis
              /\ auResp' = [status |-> 200, body |-> audioSuccessBody(analysis)]
    /\ auPc' = "done"
    /\ UNCHANGED << auReq, auElapsed, auCalls, auArmed >>

\* part_001:74, 84-90  the body stream fails: arrayBuffer() rejects and the
\* catch block answers 500
AudioBodyFails ==
    /\ auPc = "body"
    /\ auPc' = "done"
    /\ auResp' = audioErrorResponse
    /\ UNCHANGED << auReq, auElapsed, auCalls, auArmed, auBuffer, auAnalysis >>

(***************************************************************************)
(* Part 5: the rate limiter of part_001, mounted on /api.                   *)
(***************************************************************************)
\* part_001:47  rateLimit(60 * 1000, 60)
windowMs == 60 * 1000
max == 60

\* the clock advances in steps of half a window
LimiterTickMs == windowMs \div 2

\* req.ip of the modelled clients
ClientIps == {"10.0.0.1", "10.0.0.2"}

\* the paths of the modelled requests: one below /api, one not
LimitedPaths == {"/api/chart", "/deezer-chart"}
\* part_001:47  app.use('/api', ...): the middleware sees the paths below /api
underApi(path) == path = "/api/chart"

\* Math.ceil(a / b) for positive integers
Ceil(a, b) == (a + b - 1) \div b

\* part_001:30  hits.get(ip) || 0
hitCountOf(map, ip) == IF ip \in DOMAIN map THEN map[ip] ELSE 0

\* hits.set(ip, n)
mapSet(map, ip, n) == [k \in DOMAIN map \cup {ip} |-> IF k = ip THEN n ELSE map[k]]

\* a request counted even when it is refused
limiter_CountsRefused(map, ip) ==
    LET hitCount == hitCountOf(map, ip)
    IN  IF hitCount >= max
        THEN [pass |-> FALSE, hits |-> mapSet(map, ip, hitCount + 1)]
        ELSE [pass |-> TRUE, hits |-> mapSet(map, ip, hitCount + 1)]

\* a middleware that refuses only above max
limiter_AdmitsOneMore(map, ip) ==
    LET hitCount == hitCountOf(map, ip)
    IN  IF hitCount > max
        THEN [pass |-> FALSE, hits |-> map]
        ELSE [pass |-> TRUE, hits |-> mapSet(map, ip, hitCount + 1)]

\* part_001:28-43  the middleware: whether next() is called, and the map
\* after it
limiter(map, ip) ==
    LET hitCount == hitCountOf(map, ip)
    IN  IF hitCount >= max
        THEN [pass |-> FALSE, hits |-> map]
        ELSE [pass |-> TRUE, hits |-> mapSet(map, ip, hitCount + 1)]

\* part_001:33-37  the response of a refused request
tooManyRequests ==
    [status |-> 429,
     headers |-> [RetryAfter |-> Ceil(windowMs, 1000)],
     body |-> [error |-> "Too many requests", retryAfter |-> Ceil(windowMs, 1000)]]

NoRequest == [kind |-> "none"]

LimiterInit ==
    /\ lmNow = 0
    /\ hits = << >>
    /\ admitted = [ip \in ClientIps |-> 0]
    /\ lmLast = NoRequest

\* a request arrives.  Below /api it passes the middleware, which calls
\* next() or answers 429; any other path goes to its handler directly.
Arrives(ip, path) ==
    /\ IF underApi(path)
       THEN LET out == limiter(hits, ip)
            IN  /\ hits' = out.hits
                /\ admitted' = IF out.pass
                               THEN [admitted EXCEPT ![ip] = @ + 1]
                               ELSE admitted
                /\ lmLast' = [kind |-> "request", ip |-> ip, api |-> TRUE,
                              next |-> out.pass,
                              resp |-> IF out.pass THEN NoResponse
                                       ELSE tooManyRequests]
       ELSE /\ lmLast' = [kind |-> "request", ip |-> ip, api |-> FALSE,
                          next |-> TRUE, resp |-> NoResponse]
            /\ UNCHANGED << hits, admitted >>
    /\ UNCHANGED lmNow

LimiterRequest ==
    \E ip \in ClientIps, path \in LimitedPaths : Arrives(ip, path)

\* time passes; part_001:24  every windowMs the interval callback runs
\* hits.clear()
LimiterTick ==
    /\ lmNow < MaxLimiterTicks * LimiterTickMs
    /\ lmNow' = lmNow + LimiterTickMs
    /\ IF lmNow' % windowMs = 0
       THEN /\ hits' = << >>
            /\ admitted' = [ip \in ClientIps |-> 0]
       ELSE UNCHANGED << hits, admitted >>
    /\ lmLast' = NoRequest

\* the client whose admitted requests are recorded instant by instant
ObservedIp == "10.0.0.1"

\* the clock instants a closed span of one window length can contain
SpanInstants == windowMs \div LimiterTickMs + 1

\* the last n elements of a sequence
Last(seq, n) == IF Len(seq) <= n THEN seq ELSE SubSeq(seq, Len(seq) - n + 1, Len(seq))

BurstInit == lmPassed = << 0 >>

\* a request of the observed client arrives; one passed on to a handler is
\* recorded at the present instant
BurstRequest ==
    /\ \E path \in LimitedPaths : Arrives(ObservedIp, path)
    /\ lmPassed' = IF lmLast'.api /\ lmLast'.next
                   THEN [lmPassed EXCEPT ![Len(lmPassed)] = @ + 1]
                   ELSE lmPassed

\* time passes (and the interval callback runs when it is due); a new
\* instant begins
BurstTick ==
    /\ LimiterTick
    /\ lmPassed' = Last(Append(lmPassed, 0), SpanInstants)

(***************************************************************************)
(* Specifications.                                                          *)
(***************************************************************************)
Init ==
    /\ ImageInit /\ PaginatorIdle /\ RelayIdle /\ AudioIdle /\ LimiterInit
    /\ BurstInit

Next ==
    \/ Tick /\ UNCHANGED exceptImage
    \/ TimerFetchReturns /\ UNCHANGED exceptImage
    \/ RequestServedFromSlot /\ UNCHANGED exceptImage
    \/ RequestStartsFetch /\ UNCHANGED exceptImage
    \/ RequestFetchReturns /\ UNCHANGED exceptImage

Spec == Init /\ [][Next]_vars

NextPaginator ==
    \/ PgRequest /\ UNCHANGED exceptPaginator
    \/ PgPageArrives /\ UNCHANGED exceptPaginator
    \/ PgPageFails /\ UNCHANGED exceptPaginator

SpecPaginator == Init /\ [][NextPaginator]_vars

NextRelay ==
    \/ RelayRequest /\ UNCHANGED exceptRelay
    \/ RelayFetchSettles /\ UNCHANGED exceptRelay

SpecRelay == Init /\ [][NextRelay]_vars

NextAudio ==
    \/ AudioRequest /\ UNCHANGED exceptAudio
    \/ AudioTick /\ UNCHANGED exceptAudio
    \/ AudioTimeout /\ UNCHANGED exceptAudio
    \/ AudioFetchSettles /\ UNCHANGED exceptAudio
    \/ AudioBodyArrives /\ UNCHANGED exceptAudio
    \/ AudioBodyFails /\ UNCHANGED exceptAudio

SpecAudio == Init /\ [][NextAudio]_vars

\* the variables of a part return to their idle values
AudioForgotten ==
    /\ auReq' = NoQuery /\ auPc' = "idle" /\ auArmed' = FALSE /\ auElapsed' = 0
    /\ auCalls' = 0 /\ auResp' = NoResponse /\ auBuffer' = << >> /\ auAnalysis' = Null
RelayForgotten ==
    /\ rlReq' = [path |-> << "deezer-chart" >>, query |-> NoQuery]
    /\ rlHandler' = "/deezer-chart" /\ rlPc' = "idle" /\ rlUrl' = Null
    /\ rlCalls' = 0 /\ rlAcc' = << >> /\ rlAnswers' = << >> /\ rlResp' = NoResponse

\* the relay routes and /api/analyze-audio together, one request followed at
\* a time: a new request is taken up when the one before it is not waiting
\* for its upstream, and the variables of the other part return to idle
NextRequests ==
    \/ /\ RelayRequest
       /\ auPc \notin {"headers", "body"}
       /\ AudioForgotten
       /\ UNCHANGED << imageVars, pgVars, limiterVars, burstVars >>
    \/ RelayFetchSettles /\ UNCHANGED exceptRelay
    \/ /\ AudioRequest
       /\ rlPc # "fetching"
       /\ RelayForgotten
       /\ UNCHANGED << imageVars, pgVars, limiterVars, burstVars >>
    \/ AudioTick /\ UNCHANGED exceptAudio
    \/ AudioTimeout /\ UNCHANGED exceptAudio
    \/ AudioFetchSettles /\ UNCHANGED exceptAudio
    \/ AudioBodyArrives /\ UNCHANGED exceptAudio
    \/ AudioBodyFails /\ UNCHANGED exceptAudio

SpecRequests == Init /\ [][NextRequests]_vars

NextLimiter ==
    \/ LimiterRequest /\ UNCHANGED exceptLimiter
    \/ LimiterTick /\ UNCHANGED exceptLimiter

SpecLimiter == Init /\ [][NextLimiter]_vars

NextBurst ==
    \/ BurstRequest /\ UNCHANGED exceptBurst
    \/ BurstTick /\ UNCHANGED exceptBurst

SpecBurst == Init /\ [][NextBurst]_vars

(***************************************************************************)
(* Properties of the image cache.                                           *)
(*                                                                         *)
(* `sent` is the response of the step just taken, so an invariant over it   *)
(* speaks of every response ever sent; sent.req is what the handler saw on  *)
(* arrival.                                                                 *)
(***************************************************************************)
Responds == sent.status # 0
\* the request found the slot populated and not older than cacheDuration
ArrivedWarm(r) ==
    /\ r.req.arrival.populated
    /\ r.req.currentTime - r.req.arrival.lastFetchTime <= cacheDuration
\* the request found the slot populated and older than cacheDuration
ArrivedExpired(r) ==
    /\ r.req.arrival.populated
    /\ r.req.currentTime - r.req.arrival.lastFetchTime > cacheDuration

\* C1: a request without forceRefresh that finds the slot empty issues one
\* upstream fetch before it responds, and when that fetch brings an image
\* the 200 response carries cached: false.
C1_EmptySlotFetchesAndSaysNotCached ==
    (Responds /\ ~sent.req.shouldRefresh /\ ~sent.req.arrival.populated)
       => /\ sent.calls = 1
          /\ ~sent.fetchFailed =>
                (sent.status = 200 /\ sent.body.cached = FALSE)

\* C2: a request without forceRefresh that finds the slot populated and at
\* most cacheDuration old issues no outbound call, leaves cachedImage,
\* lastQueryUsed and lastFetchTime as they are and answers 200 with
\* cached: true and the slot's url, which is the url of the previous 200
\* response when no refresh has assigned the slot since.
C2_WarmHit ==
    [][ (sent'.status # 0 /\ ~sent'.req.shouldRefresh /\ ArrivedWarm(sent'))
          => /\ sent'.calls = 0
             /\ issued' = 0
             /\ UNCHANGED slotVars
             /\ sent'.status = 200
             /\ sent'.body.cached = TRUE
             /\ sent'.body.imageUrl = cachedImage
             /\ Truthy(served) => sent'.body.imageUrl = served ]_vars

\* a warm hit at the very edge of the cache duration, answering with the url
\* the previous response carried
C2_Witness ==
    /\ Responds /\ ~sent.req.shouldRefresh /\ sent.calls = 0
    /\ sent.req.currentTime - sent.req.arrival.lastFetchTime = cacheDuration
    /\ sent.body.cached = TRUE

\* C3: a request that finds the slot populated and older than cacheDuration
\* issues exactly one outbound call, and when that call brings an image
\* lastFetchTime is assigned a value strictly greater than the one the
\* request found on arrival.
C3_ExpiryRefetches ==
    (Responds /\ ArrivedExpired(sent))
       => /\ sent.calls = 1
          /\ ~sent.fetchFailed =>
                /\ lastFetchTime = sent.req.currentTime
                /\ lastFetchTime > sent.req.arrival.lastFetchTime

C3_Witness ==
    /\ Responds /\ ArrivedExpired(sent) /\ ~sent.req.shouldRefresh
    /\ sent.calls = 1 /\ ~sent.fetchFailed
    /\ lastFetchTime > sent.req.arrival.lastFetchTime

\* C4: a forceRefresh=true request that found a url in the slot and whose
\* upstream call fails or brings no photo is answered 200 with
\* success: true, the url the slot holds (which the request leaves in
\* place) and no error field; it is never answered 500.
C4_ForcedRefreshFailureServesStale ==
    [][ (sent'.status # 0 /\ sent'.req.shouldRefresh
           /\ sent'.req.arrival.populated /\ sent'.fetchFailed)
          => /\ sent'.status = 200
             /\ sent'.body.success = TRUE
             /\ Truthy(cachedImage)
             /\ sent'.body.imageUrl = cachedImage
             /\ "error" \notin DOMAIN sent'.body
             /\ UNCHANGED slotVars ]_vars

C4_Witness ==
    /\ Responds /\ sent.req.shouldRefresh /\ sent.req.arrival.populated
    /\ sent.fetchFailed /\ sent.status = 200
    /\ sent.body.imageUrl = cachedImage

\* C5: whenever a fetch made for a request fails and the slot was already
\* populated, the stale value is served with cached: true, for a forced
\* refresh as for an expired slot.
C5_StaleServedAsCached ==
    (Responds /\ sent.fetchFailed /\ sent.req.arrival.populated)
       => (sent.status = 200 /\ sent.body.cached = TRUE)

\* C6: when the fetch made for a request fails while the slot is empty, the
\* answer is 500 with success: false, cachedImageAvailable: false and
\* cachedImageUrl: null; and no 500 is sent for a failed fetch while the
\* slot holds a url.
C6_ColdFailure ==
    [][ (sent'.status # 0 /\ sent'.fetchFailed)
          => IF Truthy(cachedImage)
             THEN sent'.status # 500
             ELSE /\ sent'.status = 500
                  /\ sent'.body.success = FALSE
                  /\ sent'.body.cachedImageAvailable = FALSE
                  /\ sent'.body.cachedImageUrl = Null ]_vars

C6_Witness ==
    /\ Responds /\ sent.fetchFailed /\ sent.status = 500
    /\ sent.body.cachedImageAvailable = FALSE
    /\ ~Truthy(cachedImage)

\* C7: when the fetch of a timer-triggered refreshImage fails or brings no
\* image url, cachedImage, lastQueryUsed and lastFetchTime stay as they are;
\* when it brings one, all three are assigned; either way no exception
\* leaves refreshImage and no response is sent.
C7_TimerRefresh ==
    [][ returned'.kind = "timer"
          => /\ ~escaped'
             /\ sent' = NoResponse
             /\ IF Truthy(returned'.imageUrl)
                THEN /\ cachedImage' = returned'.imageUrl
                     /\ lastQueryUsed' = returned'.query
                     /\ lastFetchTime' = now
                ELSE UNCHANGED slotVars ]_vars

\* a timer refresh failed while the slot held an image
C7_Witness ==
    /\ returned.kind = "timer" /\ ~Truthy(returned.imageUrl)
    /\ Truthy(cachedImage) /\ lastFetchTime > 0

\* C8: cachedImage is null until the first fetch that brings a url and from
\* then on is the url brought by the most recently completed such fetch,
\* whether made by the timer or by a request; once non-null it never
\* becomes null again.
C8_SlotHoldsLastSuccess ==
    /\ [](cachedImage = lastSuccess)
    /\ [][Truthy(cachedImage) => Truthy(cachedImage')]_vars

\* a request's fetch failed and the slot kept the url of an earlier fetch
C8_Witness ==
    /\ returned.kind = "request" /\ ~Truthy(returned.imageUrl)
    /\ Truthy(cachedImage) /\ cachedImage = lastSuccess

\* C9: the (imageUrl, queryUsed, lastUpdated) of every success response is
\* the (url, query, timestamp) one single refresh assigned together.
C9_NoTornRead ==
    (Responds /\ sent.status = 200)
       => /\ written # Null
          /\ sent.body.imageUrl = written[1]
          /\ sent.body.queryUsed = written[2]
          /\ sent.body.lastUpdated = toISOString(written[3])

\* a handler whose own fetch failed answers with the triple a timer refresh
\* assigned while the handler was suspended
C9_Witness ==
    /\ Responds /\ sent.status = 200 /\ sent.fetchFailed
    /\ written # Null
    /\ written[3] > sent.req.currentTime
    /\ sent.body.lastUpdated = toISOString(written[3])

\* C27: whatever the interleaving of timer-triggered and request-triggered
\* refreshes, no step makes lastFetchTime smaller, so the slot's timestamp
\* (and the lastUpdated reported from it) never goes backwards.
C27_TimestampNeverDecreases ==
    [][lastFetchTime' >= lastFetchTime]_vars

\* C28: every 200 response of GET /api/music-image says success: true and
\* carries a non-null imageUrl, the slot's cachedImage at that moment, a
\* queryUsed that is one of the search queries (never the empty string) and
\* the lastUpdated of a lastFetchTime greater than 0.
C28_SuccessCarriesImage ==
    (Responds /\ sent.status = 200)
       => /\ sent.body.success = TRUE
          /\ sent.body.imageUrl # Null
          /\ Truthy(sent.body.imageUrl)
          /\ sent.body.imageUrl = cachedImage
          /\ lastFetchTime > 0
          /\ sent.body.lastUpdated = toISOString(lastFetchTime)
          /\ sent.body.queryUsed \in { musicQueries[k] : k \in DOMAIN musicQueries }

\* a request that fetched nothing itself is answered 200 from the slot a
\* timer refresh filled, while another timer refresh is in flight
C28_Witness ==
    /\ Responds /\ sent.status = 200
    /\ sent.calls = 0
    /\ timerCalls > 0
    /\ sent.body.imageUrl = cachedImage /\ cachedImage # Null
    /\ lastFetchTime > StartTime

(***************************************************************************)
(* Properties of the paginator.                                             *)
(***************************************************************************)
RECURSIVE Flatten(_)
\* the item arrays of a sequence of pages, concatenated in page order
Flatten(pages) ==
    IF pages = << >> THEN << >>
    ELSE pages[1].body.data \o Flatten(Tail(pages))

\* every page received carried an item array
AllSuccessful(pages) == \A k \in 1..Len(pages) : "data" \in DOMAIN pages[k].body

\* the pages received are the upstream's chain from the route's first url on:
\* page k's next is the url of page k+1, and the last page's next is null,
\* absent or empty
IsChain(route, pages) ==
    /\ Len(pages) > 0
    /\ pages[1].url = PageUrl(route, 1)
    /\ \A k \in 1..(Len(pages) - 1) :
          /\ TruthyNext(Get(pages[k].body, "next"))
          /\ pages[k].body.next = pages[k + 1].url
    /\ ~TruthyNext(Get(pages[Len(pages)].body, "next"))

\* C10: a request whose pages all succeed is answered only when the whole
\* chain of N pages has been fetched, with exactly N outbound calls, and the
\* response is 200 with data the concatenation of the N item arrays in page
\* order (nothing dropped, duplicated or reordered).
C10_PaginatorConcatenates ==
    (pgPc = "done" /\ AllSuccessful(pgPages))
       => /\ IsChain(pgRoute, pgPages)
          /\ pgCalls = Len(pgPages)
          /\ pgResp.status = 200
          /\ pgResp.body.data = Flatten(pgPages)

\* a three-page chain with items on every page has been answered
C10_Witness ==
    /\ pgPc = "done" /\ AllSuccessful(pgPages) /\ Len(pgPages) = 3
    /\ IsChain(pgRoute, pgPages)
    /\ \A k \in 1..3 : Len(pgPages[k].body.data) > 0
    /\ pgCalls = 3 /\ pgResp.status = 200

\* a response that is a JSON error object with status 500
IsJsonError500(resp) ==
    /\ resp.status = 500
    /\ "body" \in DOMAIN resp
    /\ "error" \in DOMAIN resp.body

\* C11: when the fetch of a page fails (transport error or non-success
\* status), the caller receives an HTTP 500 JSON error response, no further
\* page is fetched (the calls made are the pages received plus the failed
\* one), and no 200 response with the items of the earlier pages is sent.
C11_PageFailureAnswers500 ==
    pgPc = "rejected"
       => /\ IsJsonError500(pgResp)
          /\ pgCalls = Len(pgPages) + 1
          /\ pgResp.status # 200

\* C22: on both paginated routes, every page whose items were appended to
\* the accumulator came with a JSON content type and a success status (a
\* page with another content type, or none, is never accumulated).
C22_PagesValidated ==
    \A k \in 1..Len(pgPages) : pgPages[k].jsonType /\ pgPages[k].ok

\* every page received so far names a next page
AllHaveNext(pages) ==
    \A k \in 1..Len(pages) : TruthyNext(Get(pages[k].body, "next"))

\* the loop goes on exactly while the pages name a next page: with every
\* page so far naming one (and none failed) the handler has issued one more
\* call and has not answered, however many pages that is; it answers 200
\* only after a page whose next is null, absent or empty
LoopRunsWhileNextIsSet ==
    /\ (pgPc = "fetching") => AllHaveNext(pgPages)
    /\ (pgPages # << >> /\ AllHaveNext(pgPages) /\ pgPc # "rejected")
          => /\ pgPc = "fetching"
             /\ pgCalls = Len(pgPages) + 1
             /\ pgResp = NoResponse
    /\ (pgPc = "done")
          => /\ ~TruthyNext(Get(pgPages[Len(pgPages)].body, "next"))
             /\ AllHaveNext(SubSeq(pgPages, 1, Len(pgPages) - 1))
             /\ pgResp.status = 200

\* the upstream has served a chain that returns to its first page, and the
\* handler is fetching again
CyclicChainStillFetching ==
    /\ pgPc = "fetching"
    /\ pgCalls = MaxCalls + 1
    /\ \E k \in 2..Len(pgPages) : pgPages[k].url = pgPages[1].url

\* a request whose loop was ended by a failed page has been answered
FailedPageIsAnswered ==
    (pgPc = "rejected") => pgResp # NoResponse

\* C23: the loop has no cap on its iterations; it ends and the request is
\* answered exactly when the chain of next urls reaches a page whose next
\* is null, absent or empty, or when a page fails; while the upstream keeps
\* serving successful pages that name a next page (a cycle, an endless
\* chain) the handler keeps issuing calls and does not answer.
C23_EndsAndAnswersIffChainEnds ==
    /\ LoopRunsWhileNextIsSet
    /\ FailedPageIsAnswered

(***************************************************************************)
(* Properties of the relay routes.                                          *)
(***************************************************************************)
\* the last upstream answer the handler received
LastAnswer == rlAnswers[Len(rlAnswers)]

\* the handler is no longer waiting and its last fetch was answered
Settled == rlPc # "fetching" /\ rlAnswers # << >>

\* an outbound call that failed: a transport error, a non-success status or
\* a body that does not parse as JSON
FetchFailed(answer) ==
    IF answer.kind = "reject" THEN TRUE
    ELSE ~ok(answer) \/ ~answer.parses

\* a response that is a JSON body with an error status
IsJsonError(resp) == resp.status >= 400 /\ Has(resp, "body")

\* C12: every outbound-call failure is caught inside the handler and turned
\* into one JSON error response: after a failed fetch the handler has
\* responded with an error status and a JSON body, and its promise has not
\* rejected.
C12_EveryFailureAnswered ==
    (Settled /\ FetchFailed(LastAnswer))
       => /\ rlPc = "done"
          /\ IsJsonError(rlResp)

\* the upstream answered with a status outside 200..299
NonSuccess(answer) == answer.kind = "response" /\ ~ok(answer)

\* C13: when the upstream answers with a non-2xx status the caller receives
\* a failure response: HTTP 500 with a JSON error object, or the upstream
\* status on /api/fetchTracks/playlist/:id, and never a 200.
C13_NonSuccessIsReported ==
    (Settled /\ NonSuccess(LastAnswer))
       => /\ rlResp.status # 200
          /\ \/ IsJsonError500(rlResp)
             \/ /\ rlHandler = "/api/fetchTracks/playlist/:id"
                /\ rlResp.status = LastAnswer.status
                /\ Has(rlResp, "body")

\* the request being followed passed the checks of its handler
Validated == rlPc # "idle" /\ ~invalid(rlHandler, rlReq)

\* the calls issued are the answers received, plus the one in flight
CallsAnswered ==
    rlCalls = Len(rlAnswers) + (IF rlPc = "fetching" THEN 1 ELSE 0)

\* C25 as stated: every request that passed validation has exactly one
\* outbound call issued for it, on every relay route, /fetch-playlists
\* included.
C25_ExactlyOneCall ==
    Validated => rlCalls = 1

\* C25, amended: a request that passed validation has exactly one outbound
\* call issued for it, except on /fetch-playlists, which issues one call per
\* id of its fixed list, in list order, until one fails: at most three, each
\* id at most once.  On no route is a call issued after a failed one.
C25_OneCallPerUpstreamResource ==
    Validated
       => /\ CallsAnswered
          /\ \A k \in 1..(Len(rlAnswers) - 1) : ~FetchFailed(rlAnswers[k])
          /\ (rlPc = "fetching" /\ rlAnswers # << >>) => ~FetchFailed(LastAnswer)
          /\ IF rlHandler = "/fetch-playlists"
             THEN /\ rlCalls \in 1..Len(FetchPlaylistIds)
                  /\ rlUrl = << "/playlist/", FetchPlaylistIds[rlCalls] >>
                  /\ (rlPc = "done" /\ rlResp.status = 200)
                        => rlCalls = Len(FetchPlaylistIds)
             ELSE rlCalls = 1

\* /fetch-playlists has answered 200 after three calls
C25_Witness ==
    /\ Validated
    /\ rlHandler = "/fetch-playlists"
    /\ rlPc = "done" /\ rlResp.status = 200
    /\ rlCalls = 3 /\ Len(rlAnswers) = 3

\* the request being followed is a GET /api/artist/<id>/albums
AlbumsRequested ==
    /\ rlPc # "idle"
    /\ Len(rlReq.path) = 4
    /\ rlReq.path[1] = "api" /\ rlReq.path[2] = "artist" /\ rlReq.path[4] = "albums"

\* the upstream body arrived and has a data array
HasDataArray(answer) ==
    /\ answer.kind = "response" /\ answer.parses
    /\ Has(answer.json, "data")

\* the number of times x occurs in a sequence
Occurrences(seq, x) == Cardinality({ i \in DOMAIN seq : seq[i] = x })

\* b holds the elements of a, each as often as a does
IsPermutation(a, b) ==
    /\ Len(a) = Len(b)
    /\ \A i \in DOMAIN a : Occurrences(a, a[i]) = Occurrences(b, a[i])

\* no album stands before one released later
MostRecentFirst(albums) ==
    \A i, j \in DOMAIN albums :
       i < j => DateValue(albums[i].release_date) >= DateValue(albums[j].release_date)

\* C26: a GET /api/artist/<id>/albums is always dispatched to the handler
\* registered first for the path, the sorting one; when the upstream body
\* has a data array the answer is 200 {success: true, albums} with albums a
\* permutation of the array in descending order of release_date.
C26_AlbumsSortedByFirstHandler ==
    AlbumsRequested
       => /\ rlHandler = "/api/artist/:artistId/albums"
          /\ (Settled /\ HasDataArray(LastAnswer))
                => /\ rlPc = "done"
                   /\ rlResp.status = 200
                   /\ DOMAIN rlResp.body = {"success", "albums"}
                   /\ rlResp.body.success = TRUE
                   /\ IsPermutation(LastAnswer.json.data, rlResp.body.albums)
                   /\ MostRecentFirst(rlResp.body.albums)

\* three albums that the upstream listed oldest first have been answered
\* most recent first
C26_Witness ==
    /\ AlbumsRequested /\ Settled /\ HasDataArray(LastAnswer)
    /\ Len(LastAnswer.json.data) = 3
    /\ ~MostRecentFirst(LastAnswer.json.data)
    /\ rlResp.status = 200
    /\ rlResp.body.albums # LastAnswer.json.data
    /\ rlResp.body.albums[1].id = 23 /\ rlResp.body.albums[3].id = 21

\* the status codes the interface defines
DefinedStatuses == {200, 400, 404, 429, 500}

\* a response has been sent for the request
RelayResponded == rlResp.status # 0

RelaysUpstreamStatus ==
    /\ rlHandler = "/api/fetchTracks/playlist/:id"
    /\ Settled
    /\ NonSuccess(LastAnswer)
    /\ LastAnswer.parses
    /\ rlResp.status = LastAnswer.status

TracksAnswered ==
    /\ rlHandler = "/api/playlist-tracks"
    /\ Settled
    /\ LastAnswer.kind = "response"
    /\ ok(LastAnswer)
    /\ LastAnswer.parses
    /\ Has(LastAnswer.json, "data")

\* out holds the documented fields of the upstream track, with the values of
\* that track, and nothing else
IsProjectionOf(out, track) ==
    /\ DOMAIN out = {"id", "title", "duration", "artist", "album", "preview"}
    /\ DOMAIN out.artist = {"id", "name"}
    /\ DOMAIN out.album = {"id", "title", "cover_small", "cover_medium"}
    /\ out.id = track.id /\ out.title = track.title
    /\ out.duration = track.duration /\ out.preview = track.preview
    /\ out.artist.id = track.artist.id /\ out.artist.name = track.artist.name
    /\ out.album.id = track.album.id /\ out.album.title = track.album.title
    /\ out.album.cover_small = track.album.cover_small
    /\ out.album.cover_medium = track.album.cover_medium

\* C19: for a successful upstream response with a track array of length n,
\* GET /api/playlist-tracks answers 200 with {tracks} of length n, element i
\* holding exactly the keys id, title, duration, artist {id, name}, album
\* {id, title, cover_small, cover_medium} and preview of upstream track i.
C19_FlattenedTracks ==
    TracksAnswered
       => /\ rlResp.status = 200
          /\ DOMAIN rlResp.body = {"tracks"}
          /\ Len(rlResp.body.tracks) = Len(LastAnswer.json.data)
          /\ \A i \in 1..Len(LastAnswer.json.data) :
                IsProjectionOf(rlResp.body.tracks[i], LastAnswer.json.data[i])

\* two different tracks have been flattened, the second upstream track
\* having the smaller id
C19_Witness ==
    /\ TracksAnswered
    /\ Len(LastAnswer.json.data) = 2
    /\ LastAnswer.json.data[1].id > LastAnswer.json.data[2].id
    /\ rlResp.status = 200
    /\ rlResp.body.tracks[1].id = LastAnswer.json.data[1].id
    /\ "rank" \in DOMAIN LastAnswer.json.data[1]

(***************************************************************************)
(* Properties of parameter validation.                                      *)
(***************************************************************************)
\* the request being followed lacks the parameter its route requires:
\* /api/playlist-tracks without an id, /api/fetchTracks/playlist/:id with an
\* id that is not a number
RelayParameterBad ==
    /\ rlPc # "idle"
    /\ \/ rlHandler = "/api/playlist-tracks" /\ ~Has(rlReq.query, "id")
       \/ /\ rlHandler = "/api/fetchTracks/playlist/:id"
          /\ \E k \in 1..Len(Chars(rlReq.path[4])) : Chars(rlReq.path[4])[k] \notin Digits

\* the urls among AudioUrls that are not absolute urls
MalformedAudioUrls ==
    { << >>, << "audio.mp3" >>, << "https", ":", "//" >> }

\* /api/analyze-audio without a url or with a malformed one
AudioParameterBad ==
    /\ auPc # "idle"
    /\ IF Has(auReq, "url") THEN auReq.url \in MalformedAudioUrls ELSE TRUE

Analysed == auPc = "done" /\ auResp.status = 200

\* C16: for an empty buffer, and for every buffer shorter than 32 bytes,
\* analyzeAudioBuffer divides nothing by zero and returns 32 frequencies
\* that are all the number 0.
C16_ShortBufferGivesZeros ==
    (Analysed /\ Len(auBuffer) < frequencyBands)
       => /\ Len(auAnalysis.frequencies) = frequencyBands
          /\ \A k \in 1..frequencyBands : auAnalysis.frequencies[k] = Zero

\* a number in [0, 1]
InUnit(x) == x.den > 0 /\ x.num >= 0 /\ x.num <= x.den

\* the bytes the 32 slices cover
Covered(data) == 1..(frequencyBands * (Len(data) \div frequencyBands))

\* the buffer of 3200 zero bytes
IsZeros3200(data) == Len(data) = 3200 /\ \A i \in 1..3200 : data[i] = 0

\* C17: for a buffer of at least 32 bytes analyzeAudioBuffer returns 32
\* values in [0, 1]; their maximum is 1, unless every covered byte is 128, in
\* which case all are 0.  For 3200 zero bytes all 32 values are 1, duration
\* is 3200/44100 and sampleRate is 44100.
C17_Normalised ==
    (Analysed /\ Len(auBuffer) >= frequencyBands)
       => /\ Len(auAnalysis.frequencies) = frequencyBands
          /\ \A k \in 1..frequencyBands : InUnit(auAnalysis.frequencies[k])
          /\ IF \A i \in Covered(auBuffer) : auBuffer[i] = 128
             THEN \A k \in 1..frequencyBands : auAnalysis.frequencies[k] = Zero
             ELSE \E k \in 1..frequencyBands : auAnalysis.frequencies[k] = One
          /\ IsZeros3200(auBuffer)
                => /\ \A k \in 1..frequencyBands : auAnalysis.frequencies[k] = One
                   /\ auAnalysis.duration.num * 44100 = 3200 * auAnalysis.duration.den
                   /\ auAnalysis.sampleRate = 44100

\* the buffer of 3200 zero bytes has been analysed
C17_Witness ==
    /\ Analysed
    /\ IsZeros3200(auBuffer)
    /\ auAnalysis.frequencies[1] = One
    /\ auResp.body.frequencies[frequencyBands] = One

\* C24: the 32 slices cover the whole buffer, the last one running to its
\* end, so that every byte contributes to an output value, also when the
\* length is not a multiple of 32: a buffer of at least 32 bytes holding a
\* byte that is not silence (128) never yields 32 zeros.
C24_EveryByteContributes ==
    (Analysed /\ Len(auBuffer) >= frequencyBands
              /\ \E i \in 1..Len(auBuffer) : auBuffer[i] # 128)
       => \E k \in 1..frequencyBands : auAnalysis.frequencies[k] # Zero

\* the handler is still waiting for its upstream
AudioWaiting == auPc \in {"headers", "body"}

\* C18: when the upstream has not delivered the complete audio, headers and
\* body, within 5 seconds of the fetch starting, the fetch is aborted and
\* the request answered with a 500: no request is still waiting for its
\* upstream, for headers or for the body, after more than 5 seconds.
C18_AnsweredByDeadline ==
    AudioWaiting => auElapsed <= fetchTimeout

(***************************************************************************)
(* Properties of the rate limiter.                                          *)
(***************************************************************************)
\* what C20 says of one step in which the middleware handles a request of
\* an ip: with max requests of the ip already passed on since the last
\* reset it is refused (429 with a Retry-After header, next() not called so
\* that no handler runs and no outbound call is made, the map untouched);
\* otherwise it is passed on and counted.  The counts of the other ips stay
\* as they are.
C20_Step ==
    (lmLast'.kind = "request" /\ lmLast'.api)
       => LET ip == lmLast'.ip
          IN  /\ IF admitted[ip] >= max
                 THEN /\ lmLast'.resp.status = 429
                      /\ lmLast'.resp.headers.RetryAfter = 60
                      /\ ~lmLast'.next
                      /\ hits' = hits
                      /\ admitted' = admitted
                 ELSE /\ lmLast'.next
                      /\ lmLast'.resp = NoResponse
                      /\ hitCountOf(hits', ip) = hitCountOf(hits, ip) + 1
              /\ \A other \in ClientIps \ {ip} :
                    hitCountOf(hits', other) = hitCountOf(hits, other)

\* C20: for every ip at most max requests on /api paths are passed on to a
\* handler between two consecutive resets; every further request of the ip
\* in the window is answered 429 with Retry-After, leaves the hit counter
\* unchanged and reaches no handler; other ips are unaffected; after the
\* next reset the ip is admitted again.
C20_WindowCap ==
    /\ [](\A ip \in ClientIps : admitted[ip] <= max)
    /\ [][C20_Step]_vars

\* after a reset an ip has again used up its window and is refused, while
\* the other ip has not been refused
C20_Witness ==
    /\ lmNow >= windowMs
    /\ lmLast.kind = "request" /\ lmLast.api
    /\ lmLast.resp.status = 429
    /\ admitted[lmLast.ip] = max
    /\ \E other \in ClientIps : admitted[other] > 0 /\ admitted[other] < max

(***************************************************************************)
(* Properties of the rate limiter across a reset.                           *)
(***************************************************************************)
RECURSIVE Sum(_)
Sum(seq) == IF seq = << >> THEN 0 ELSE seq[1] + Sum(Tail(seq))

\* C21: the requests of one ip passed on to a handler within any span of
\* one window length (the instants t .. t + windowMs) are never more than
\* 2 * max, whatever the position of the span relative to the resets.
C21_SpanCap ==
    Sum(lmPassed) <= 2 * max

\* 2 * max requests of the ip have been passed on within half a window:
\* max at the last instant before a reset and max at the instant of the
\* reset
C21_Witness ==
    /\ lmNow = windowMs
    /\ Len(lmPassed) >= 2
    /\ lmPassed[Len(lmPassed) - 1] = max
    /\ lmPassed[Len(lmPassed)] = max
    /\ LimiterTickMs < windowMs

====
